---- MODULE Spec2Model ----
(***************************************************************************)
(* Hua Rong Dao solver (src/hrd.py): Piece, Board, State, the two search   *)
(* frontiers (heapq-backed Heap and a plain list used as a stack) and      *)
(* State.search, modelled as a state machine.                              *)
(*                                                                         *)
(* Python objects live in an arena (`states`): a State is referred to by   *)
(* its index there, 0 standing for None.  Characters are one-character     *)
(* strings, a Python str is a sequence of them, a list is a sequence and   *)
(* the grid (list of lists indexed from 0) is a function on 0..h-1, 0..w-1.*)
(***************************************************************************)
EXTENDS Integers, Sequences, FiniteSets, TLC

\* ------------------------------------------------------------------ bounds
\* Number of fixture layouts the initial puzzle file is drawn from.
NumLayouts == 8
\* Number of malformed puzzle files the program is also started on.
NumBadLayouts == 3
\* How many cells past the grid's right and bottom edges a piece handed to
\* Board() may lie.
MaxOutside == 1
\* Number of values of the string hash.
HashModulus == 64

\* ------------------------------------------------------- program constants
char_goal == "1"
char_single == "2"
Width == 4
Height == 5
\* the fixed target of the goal piece's top-left corner
GoalX == 1
GoalY == 3

None == "None"
NoState == 0

Abs(n) == IF n < 0 THEN -n ELSE n

\* F of the value of v, with v evaluated once, before F is: the order in
\* which Python evaluates "name = expression" followed by uses of name.
Bind(v, F(_)) == CHOOSE r \in {F(x) : x \in {v}} : TRUE

\* ------------------------------------------------------------------ Piece
\* Piece.__init__
Piece(is_goal, is_single, coord_x, coord_y, orientation) ==
  [is_goal |-> is_goal, is_single |-> is_single, coord_x |-> coord_x,
   coord_y |-> coord_y, orientation |-> orientation]

\* Outcome of a call: a value, or the exception it raised.
Ok(v) == [ok |-> TRUE, val |-> v]
Raise(e) == [ok |-> FALSE, err |-> e]

\* Piece.move without its check for a negative coordinate.
PieceMove_Unchecked(piece, x, y) ==
  [ok |-> TRUE,
   val |-> [piece EXCEPT !.coord_x = @ + x, !.coord_y = @ + y]]

\* Piece.move passing is_single and is_goal to Piece() in each other's place.
PieceMove_KindsSwapped(piece, x, y) ==
  LET new_x == piece.coord_x + x
      new_y == piece.coord_y + y
  IN IF new_x < 0 \/ new_y < 0
       THEN Raise("ValueError")
       ELSE Ok(Piece(piece.is_single, piece.is_goal, new_x, new_y, piece.orientation))

\* Piece.move: a translated copy; ValueError on a negative coordinate.
PieceMove(piece, x, y) ==
  LET new_x == piece.coord_x + x
      new_y == piece.coord_y + y
  IN IF new_x < 0 \/ new_y < 0
       THEN Raise("ValueError")
       ELSE Ok(Piece(piece.is_goal, piece.is_single, new_x, new_y, piece.orientation))

\* ------------------------------------------------------------------ Board
\* The all-empty grid built by the first loop of __construct_grid.
EmptyGrid == [i \in 0..(Height - 1) |-> [j \in 0..(Width - 1) |-> "."]]

\* Python list indexing: index i of a list of length n is position i when
\* 0 <= i < n and position i + n when -n <= i < 0; IndexError otherwise.
InRange(i, n) == -n <= i /\ i < n
Position(i, n) == IF i < 0 THEN i + n ELSE i

\* self.grid[y][x] = ch.  `g` carries the grid built so far, the goal
\* recorded so far and whether an exception was raised.
SetCell(g, y, x, ch) ==
  IF g.raised THEN g
  ELSE IF ~InRange(y, Height) \/ ~InRange(x, Width)
    THEN [g EXCEPT !.raised = TRUE]
    ELSE [g EXCEPT !.grid[Position(y, Height)][Position(x, Width)] = ch]

\* The iteration writing the single's character on every cell of a piece
\* that is not the goal piece.
OverlayPiece_OneSymbol(g, piece) ==
  IF piece.is_goal THEN
    LET g1 == SetCell(g, piece.coord_y, piece.coord_x, char_goal)
        g2 == SetCell(g1, piece.coord_y, piece.coord_x + 1, char_goal)
        g3 == SetCell(g2, piece.coord_y + 1, piece.coord_x, char_goal)
        g4 == SetCell(g3, piece.coord_y + 1, piece.coord_x + 1, char_goal)
    IN IF g4.raised THEN g4 ELSE [g4 EXCEPT !.goal = piece]
  ELSE IF piece.is_single THEN
    SetCell(g, piece.coord_y, piece.coord_x, char_single)
  ELSE IF piece.orientation = "h" THEN
    SetCell(SetCell(g, piece.coord_y, piece.coord_x, char_single),
            piece.coord_y, piece.coord_x + 1, char_single)
  ELSE IF piece.orientation = "v" THEN
    SetCell(SetCell(g, piece.coord_y, piece.coord_x, char_single),
            piece.coord_y + 1, piece.coord_x, char_single)
  ELSE g

\* One iteration of "for piece in self.pieces" of __construct_grid.
OverlayPiece(g, piece) ==
  IF piece.is_goal THEN
    LET g1 == SetCell(g, piece.coord_y, piece.coord_x, char_goal)
        g2 == SetCell(g1, piece.coord_y, piece.coord_x + 1, char_goal)
        g3 == SetCell(g2, piece.coord_y + 1, piece.coord_x, char_goal)
        g4 == SetCell(g3, piece.coord_y + 1, piece.coord_x + 1, char_goal)
    IN IF g4.raised THEN g4 ELSE [g4 EXCEPT !.goal = piece]
  ELSE IF piece.is_single THEN
    SetCell(g, piece.coord_y, piece.coord_x, char_single)
  ELSE IF piece.orientation = "h" THEN
    SetCell(SetCell(g, piece.coord_y, piece.coord_x, "<"),
            piece.coord_y, piece.coord_x + 1, ">")
  ELSE IF piece.orientation = "v" THEN
    SetCell(SetCell(g, piece.coord_y, piece.coord_x, "^"),
            piece.coord_y + 1, piece.coord_x, "v")
  ELSE g

\* "for piece in self.pieces", from the k-th piece on; an exception ends it.
RECURSIVE OverlayFrom(_, _, _)
OverlayFrom(g, pieces, k) ==
  IF k > Len(pieces) THEN g
  ELSE Bind(OverlayPiece(g, pieces[k]),
            LAMBDA g1 : IF g1.raised THEN g1 ELSE OverlayFrom(g1, pieces, k + 1))

\* The counting loop of __construct_grid.
CountEmpty(grid) ==
  Cardinality({c \in (0..(Height - 1)) \X (0..(Width - 1)) : grid[c[1]][c[2]] = "."})

\* __construct_grid raising only when fewer than two cells are empty.
ConstructGrid_AtLeastTwo(pieces) ==
  Bind(OverlayFrom([grid |-> EmptyGrid, goal |-> None, raised |-> FALSE], pieces, 1),
       LAMBDA g : IF g.raised THEN [ok |-> FALSE, err |-> "IndexError"]
                  ELSE IF CountEmpty(g.grid) < 2 THEN [ok |-> FALSE, err |-> "ValueError"]
                  ELSE [ok |-> TRUE, val |-> g])

\* Board.__construct_grid: the grid and goal, or the exception raised.
ConstructGrid(pieces) ==
  Bind(OverlayFrom([grid |-> EmptyGrid, goal |-> None, raised |-> FALSE], pieces, 1),
       LAMBDA g : IF g.raised THEN Raise("IndexError")
                  ELSE IF CountEmpty(g.grid) # 2 THEN Raise("ValueError")
                  ELSE Ok(g))

\* "".join(line)
RowString(line) == [j \in 1..Width |-> line[j - 1]]

\* The rows joined with nothing between them.
RECURSIVE JoinLines_NoSeparator(_, _)
JoinLines_NoSeparator(grid, i) ==
  IF i > Height - 1 THEN << >>
  ELSE RowString(grid[i]) \o JoinLines_NoSeparator(grid, i + 1)

\* "\n".join(["".join(line) for line in self.grid])
RECURSIVE JoinLines(_, _)
JoinLines(grid, i) ==
  IF i > Height - 1 THEN << >>
  ELSE IF i = 0 THEN RowString(grid[i]) \o JoinLines(grid, i + 1)
  ELSE <<"\n">> \o RowString(grid[i]) \o JoinLines(grid, i + 1)

\* Board.__init__: the Board, or the exception __construct_grid raised.
Board(pieces) ==
  Bind(ConstructGrid(pieces),
       LAMBDA c : IF ~c.ok THEN c
                  ELSE Ok([width |-> Width, height |-> Height, pieces |-> pieces,
                           grid |-> c.val.grid, goal |-> c.val.goal,
                           board_string |-> JoinLines(c.val.grid, 0)]))

\* Board.move: copy the piece list, replace one piece by its translation,
\* build a new Board; whatever Piece.move or Board raises propagates.
\* piece_number is the 0-based Python index.
BoardMove(board, piece_number, x, y) ==
  LET moved == PieceMove(board.pieces[piece_number + 1], x, y)
  IN IF ~moved.ok THEN moved
     ELSE Board([board.pieces EXCEPT ![piece_number + 1] = moved.val])

\* ------------------------------------------------------------------ State
\* manhattan_distance with the target's coordinates exchanged.
manhattan_distance_Swapped(board) ==
  Abs(board.goal.coord_x - 3) + Abs(board.goal.coord_y - 1)

\* manhattan_distance counting every cell twice.
manhattan_distance_Doubled(board) ==
  2 * (Abs(board.goal.coord_x - 1) + Abs(board.goal.coord_y - 3))

\* State.manhattan_distance, on the board of the state
manhattan_distance(board) ==
  Abs(board.goal.coord_x - 1) + Abs(board.goal.coord_y - 3)

\* State.__init__ with the depth subtracted from the heuristic.
State_DeepFirst(board, depth, parent) ==
  [board |-> board, f |-> manhattan_distance(board) - depth,
   depth |-> depth, parent |-> parent]

\* State.__init__ (self.id, a hash of the Board object, is never read)
State(board, depth, parent) ==
  [board |-> board, f |-> depth + manhattan_distance(board),
   depth |-> depth, parent |-> parent]

\* State.is_goal
is_goal(s) == s.board.goal.coord_x = 1 /\ s.board.goal.coord_y = 3

\* ord() of the characters a board string is made of
Ord(ch) ==
  CASE ch = "\n" -> 10 [] ch = "." -> 46 [] ch = "1" -> 49 [] ch = "2" -> 50
    [] ch = "<" -> 60 [] ch = ">" -> 62 [] ch = "^" -> 94 [] ch = "v" -> 118

\* str.__hash__: a number computed from the characters of the string alone,
\* of bounded width, so that distinct strings may share a hash.  Which
\* number is Python's business; the search relies only on equal strings
\* having equal hashes, and __eq__ decides among States that share one.
RECURSIVE StrHashFrom(_, _, _)
StrHashFrom(str, k, h) ==
  IF k > Len(str) THEN h
  ELSE StrHashFrom(str, k + 1, (h * 31 + Ord(str[k])) % HashModulus)

StrHash(str) == StrHashFrom(str, 1, 0)

\* State.__hash__
StateHash(s) == StrHash(s.board.board_string)

\* State.__eq__ comparing the piece lists instead of the board strings.
StateEq_ByPieces(s, other) == s.board.pieces = other.board.pieces

\* State.__eq__
StateEq(s, other) == s.board.board_string = other.board.board_string

\* State.__lt__ with the comparison turned round.
StateLt_Reversed(s, other) == other.f < s.f

\* State.__lt__
StateLt(s, other) == s.f < other.f

\* "state in seen" when States compare by identity (object.__eq__).
InSeen_ByIdentity(sts, seenSet, s) == s \in seenSet

\* "state in seen" for a set of States: a member with the same hash that
\* compares equal.  sts is the arena, seenSet and s are arena indices.
InSeen(sts, seenSet, s) ==
  \E t \in seenSet : /\ StateHash(sts[t]) = StateHash(sts[s])
                     /\ StateEq(sts[t], sts[s])

\* State.to_list: boards from the root to state s (an arena index).
RECURSIVE ParentChain(_, _)
ParentChain(sts, curr) ==
  IF sts[curr].parent # NoState
    THEN <<sts[curr].board>> \o ParentChain(sts, sts[curr].parent)
    ELSE <<sts[curr].board>>

Reverse(seq) == [k \in 1..Len(seq) |-> seq[Len(seq) + 1 - k]]

\* State.to_list without the final reversal.
to_list_Unreversed(sts, s) == ParentChain(sts, s)

\* State.to_list putting self.board on the list twice.
to_list_Stutter(sts, s) ==
  Bind(<<sts[s].board>> \o ParentChain(sts, s), LAMBDA chain : Reverse(chain))

to_list(sts, s) == Bind(ParentChain(sts, s), LAMBDA chain : Reverse(chain))

\* The four unit translations in the order generate_successors tries them.
Directions == << <<1, 0>>, <<-1, 0>>, <<0, 1>>, <<0, -1>> >>

\* The candidates of generate_successors with the last of the four
\* directions never tried.
Candidates_ThreeDirections(s) ==
  [c \in 1..(Len(s.board.pieces) * 3) |->
     LET i == (c - 1) \div 3
         d == ((c - 1) % 3) + 1
     IN BoardMove(s.board, i, Directions[d][1], Directions[d][2])]

\* State.generate_successors.  The two nested loops try Board.move for
\* piece i = 0..len-1 (outer) and the four directions (inner), in that
\* order: candidate number c is piece (c-1) div 4, direction (c-1) mod 4.
\* A candidate whose Board.move raised is dropped by "finally: continue";
\* the others become States of depth + 1 whose parent is self (the arena
\* index of s), in the order tried.
Candidates(s) ==
  [c \in 1..(Len(s.board.pieces) * Len(Directions)) |->
     LET i == (c - 1) \div Len(Directions)
         d == ((c - 1) % Len(Directions)) + 1
     IN BoardMove(s.board, i, Directions[d][1], Directions[d][2])]

Survived(outcome) == outcome.ok

\* generate_successors giving the successors the depth of their parent.
generate_successors_SameDepth(s, self) ==
  Bind(SelectSeq(Candidates(s), Survived),
       LAMBDA new_boards :
         [k \in 1..Len(new_boards) |-> State(new_boards[k].val, s.depth, self)])

generate_successors(s, self) ==
  Bind(SelectSeq(Candidates(s), Survived),
       LAMBDA new_boards :
         [k \in 1..Len(new_boards) |-> State(new_boards[k].val, s.depth + 1, self)])

\* --------------------------------------------------------------- frontier
\* A frontier is a list of arena indices.  For Heap it is self.heap, kept
\* in heap order by heapq with State.__lt__; positions below are 0-based.
At(heap, pos) == heap[pos + 1]
Put(heap, pos, item) == [heap EXCEPT ![pos + 1] = item]

\* heapq._siftdown: move newitem up from pos towards startpos.
RECURSIVE SiftDown(_, _, _, _, _)
SiftDown(sts, heap, startpos, pos, newitem) ==
  IF pos > startpos
    THEN LET parentpos == (pos - 1) \div 2
             parent == At(heap, parentpos)
         IN IF StateLt(sts[newitem], sts[parent])
              THEN Bind(Put(heap, pos, parent),
                        LAMBDA h : SiftDown(sts, h, startpos, parentpos, newitem))
              ELSE Put(heap, pos, newitem)
    ELSE Put(heap, pos, newitem)

\* heapq._siftup: bubble the smaller child up until a leaf is hit, then
\* sift newitem down into place.
RECURSIVE SiftUp(_, _, _, _, _)
SiftUp(sts, heap, startpos, pos, newitem) ==
  LET endpos == Len(heap)
      childpos == 2 * pos + 1
      rightpos == childpos + 1
      smaller == IF rightpos < endpos
                    /\ ~StateLt(sts[At(heap, childpos)], sts[At(heap, rightpos)])
                   THEN rightpos ELSE childpos
  IN IF childpos < endpos
       THEN Bind([heap |-> Put(heap, pos, At(heap, smaller)), pos |-> smaller],
                 LAMBDA n : SiftUp(sts, n.heap, startpos, n.pos, newitem))
       ELSE Bind(Put(heap, pos, newitem),
                 LAMBDA h : SiftDown(sts, h, startpos, pos, newitem))

\* heapq.heappush, as called by Heap.append
heappush(sts, heap, item) ==
  Bind(Append(heap, item), LAMBDA h : SiftDown(sts, h, 0, Len(h) - 1, item))

\* Heap.pop taking the last element of the list (list.pop).
heappop_Last(sts, heap) ==
  [item |-> heap[Len(heap)], rest |-> SubSeq(heap, 1, Len(heap) - 1)]

\* heapq.heappop, as called by Heap.pop: the item and the heap left
heappop(sts, heap) ==
  LET lastelt == heap[Len(heap)]
      rest == SubSeq(heap, 1, Len(heap) - 1)
  IN IF rest # << >>
       THEN [item |-> rest[1],
             rest |-> Bind(Put(rest, 0, lastelt),
                           LAMBDA h : SiftUp(sts, h, 0, 0, lastelt))]
       ELSE [item |-> lastelt, rest |-> rest]

\* frontier.append(item): Heap.append or list.append
FrontierAppend(kind, sts, fr, item) ==
  IF kind = "astar" THEN heappush(sts, fr, item) ELSE Append(fr, item)

\* A pop that returns the item and leaves it in the frontier.
FrontierPop_Peek(kind, sts, fr) ==
  IF kind = "astar" THEN [item |-> fr[1], rest |-> fr]
  ELSE [item |-> fr[Len(fr)], rest |-> fr]

\* frontier.pop(): Heap.pop or list.pop (the last element)
FrontierPop(kind, sts, fr) ==
  IF kind = "astar" THEN heappop(sts, fr)
  ELSE [item |-> fr[Len(fr)], rest |-> SubSeq(fr, 1, Len(fr) - 1)]

\* frontier.extend(items): Heap.extend appends one by one, list.extend too
RECURSIVE FrontierExtend(_, _, _, _, _)
FrontierExtend(kind, sts, fr, items, k) ==
  IF k > Len(items) THEN fr
  ELSE Bind(FrontierAppend(kind, sts, fr, items[k]),
            LAMBDA fr1 : FrontierExtend(kind, sts, fr1, items, k + 1))

\* ------------------------------------------------------------ puzzle files
\* The puzzle files the runs start from: each a list of lines, each line a
\* list of characters.  The first NumLayouts of them are used.
Layouts ==
  <<
     << <<"<", ">", "<", ">">>,
        <<"<", ">", "<", ">">>,
        <<"^", "1", "1", "^">>,
        <<"v", "1", "1", "v">>,
        <<"2", ".", "2", ".">> >>,
     << <<"^", "^", "^", "^">>,
        <<"v", "v", "v", "v">>,
        <<"^", "1", "1", "^">>,
        <<"v", "1", "1", "v">>,
        <<"<", ">", ".", ".">> >>,
     << <<"^", "<", ">", "^">>,
        <<"v", "<", ">", "v">>,
        <<"<", ">", "<", ">">>,
        <<"2", "1", "1", ".">>,
        <<".", "1", "1", "2">> >>,
     << <<"<", ">", "^", ".">>,
        <<"^", ".", "v", "^">>,
        <<"v", "<", ">", "v">>,
        <<"^", "^", "1", "1">>,
        <<"v", "v", "1", "1">> >>,
     << <<".", "^", "^", "^">>,
        <<"^", "v", "v", "v">>,
        <<"v", "1", "1", "2">>,
        <<"^", "1", "1", "^">>,
        <<"v", ".", "2", "v">> >>,
     << <<"<", ">", "<", ">">>,
        <<"^", "<", ">", "^">>,
        <<"v", "<", ">", "v">>,
        <<"1", "1", ".", "2">>,
        <<"1", "1", "2", ".">> >>,
     << <<"^", "<", ">", "^">>,
        <<"v", "<", ">", "v">>,
        <<"<", ">", ".", ".">>,
        <<"1", "1", "<", ">">>,
        <<"1", "1", "2", "2">> >>,
     << <<"<", ">", "<", ">">>,
        <<"1", "1", "<", ">">>,
        <<"1", "1", ".", "2">>,
        <<"^", "<", ">", "^">>,
        <<"v", "2", ".", "v">> >>,
     << <<"^", "^", "<", ">">>,
        <<"v", "v", "<", ">">>,
        <<"^", "1", "1", "2">>,
        <<"v", "1", "1", "^">>,
        <<".", ".", "2", "v">> >>
  >>

\* read_from_file, the scan: "for line in puzzle_file: for x, ch in
\* enumerate(line)", from line line_index (0-based) and column x on.
RECURSIVE ScanFile(_, _, _, _, _)
ScanFile(lines, line_index, x, pieces, g_found) ==
  IF line_index >= Len(lines) THEN pieces
  ELSE IF x >= Len(lines[line_index + 1])
    THEN ScanFile(lines, line_index + 1, 0, pieces, g_found)
  ELSE LET ch == lines[line_index + 1][x + 1]
       IN IF ch = "^"
            THEN ScanFile(lines, line_index, x + 1,
                          Append(pieces, Piece(FALSE, FALSE, x, line_index, "v")), g_found)
          ELSE IF ch = "<"
            THEN ScanFile(lines, line_index, x + 1,
                          Append(pieces, Piece(FALSE, FALSE, x, line_index, "h")), g_found)
          ELSE IF ch = char_single
            THEN ScanFile(lines, line_index, x + 1,
                          Append(pieces, Piece(FALSE, TRUE, x, line_index, None)), g_found)
          ELSE IF ch = char_goal /\ g_found = FALSE
            THEN ScanFile(lines, line_index, x + 1,
                          Append(pieces, Piece(TRUE, FALSE, x, line_index, None)), TRUE)
          ELSE ScanFile(lines, line_index, x + 1, pieces, g_found)

\* read_from_file: the Board built from the pieces found, or its exception
read_from_file(lines) == Board(ScanFile(lines, 0, 0, << >>, FALSE))

\* Puzzle files that hold no valid puzzle: three empty cells; the upper half
\* of a vertical piece in the bottom row; no goal piece; one empty cell.
\* The first NumBadLayouts of them are used.
BadLayouts ==
  <<
     << <<"<", ">", "<", ">">>,
        <<"<", ">", "<", ">">>,
        <<"^", "1", "1", "^">>,
        <<"v", "1", "1", "v">>,
        <<"2", ".", ".", ".">> >>,
     << <<"<", ">", "<", ">">>,
        <<"<", ">", "<", ">">>,
        <<"^", "1", "1", "^">>,
        <<"v", "1", "1", "v">>,
        <<"^", ".", "2", ".">> >>,
     << <<"<", ">", "<", ">">>,
        <<"<", ">", "<", ">">>,
        <<"<", ">", "<", ">">>,
        <<"<", ">", "<", ">">>,
        <<"2", "2", ".", ".">> >>,
     << <<"<", ">", "<", ">">>,
        <<"<", ">", "<", ">">>,
        <<"^", "1", "1", "^">>,
        <<"v", "1", "1", "v">>,
        <<"2", "2", "2", ".">> >>
  >>

\* ------------------------------------------------------------------ state
VARIABLES
  algo,      \* args.algo: "astar" (Heap frontier) or "dfs" (list frontier)
  board,     \* the Board read_from_file returned
  states,    \* every State object created so far; new_state is states[1]
  frontier,  \* search's frontier: Heap.heap or the list
  seen,      \* search's seen set (arena indices of its members)
  state,     \* search's local "state": the State popped last, 0 before
  result,    \* what search returned: an arena index, 0 for None
  solution,  \* main's solution: the list of Boards written out
  pc,        \* "start", "loop", "returned", "written", "crashed", "failed"
  prior,     \* depth of the goal state an earlier Heap search of new_state
             \* returned, -1 when there was no earlier search
  exc,       \* the exception that ended the program, None while there is none
  pieces_arg,  \* the piece list handed to Board()
  mem        \* the objects of one generate_successors call

vars == <<algo, board, states, frontier, seen, state, result, solution, pc,
          prior, exc, pieces_arg, mem>>

\* __main__ up to the call of search: the board is read and new_state built.
Init ==
  /\ algo \in {"astar", "dfs"}
  /\ \E n \in 1..NumLayouts :
       /\ read_from_file(Layouts[n]).ok
       /\ pieces_arg = ScanFile(Layouts[n], 0, 0, << >>, FALSE)
       /\ board = read_from_file(Layouts[n]).val
  /\ states = <<State(board, 0, NoState)>>
  /\ frontier = << >>
  /\ seen = {}
  /\ state = NoState
  /\ result = NoState
  /\ solution = << >>
  /\ pc = "start"
  /\ prior = -1
  /\ exc = None
  /\ mem = << >>

\* self.goal of a Board is a Piece exactly when a piece of the list is the
\* goal piece (line 116 is the only assignment); it is None otherwise.
HasGoal(b) == \E k \in 1..Len(b.pieces) : b.pieces[k].is_goal

\* __main__ up to the call of search, on any puzzle file.  An exception of
\* read_from_file (from Board()) ends the program; so does the
\* AttributeError of State(board, 0, None), whose manhattan_distance reads
\* board.goal.coord_x, when board.goal is None.
InitMain ==
  /\ algo \in {"astar", "dfs"}
  /\ \E lines \in {Layouts[n] : n \in 1..NumLayouts}
                   \cup {BadLayouts[n] : n \in 1..NumBadLayouts} :
       \E loaded \in {read_from_file(lines)} :
         /\ pieces_arg = ScanFile(lines, 0, 0, << >>, FALSE)
         /\ IF loaded.ok /\ HasGoal(loaded.val)
              THEN /\ board = loaded.val
                   /\ states = <<State(board, 0, NoState)>>
                   /\ exc = None
                   /\ pc = "start"
              ELSE /\ board = None
                   /\ states = << >>
                   /\ exc = IF loaded.ok THEN "AttributeError" ELSE loaded.err
                   /\ pc = "failed"
  /\ frontier = << >>
  /\ seen = {}
  /\ state = NoState
  /\ result = NoState
  /\ solution = << >>
  /\ prior = -1
  /\ mem = << >>

\* search, before the loop: seen = set(); frontier.append(self)
SearchStart ==
  /\ pc = "start"
  /\ seen' = {}
  /\ frontier' = FrontierAppend(algo, states, frontier, 1)
  /\ pc' = "loop"
  /\ UNCHANGED <<algo, board, states, state, result, solution>>
  /\ UNCHANGED <<prior, exc, pieces_arg, mem>>

\* One iteration of the loop popping a state that is already in seen.
SearchPopSeen ==
  /\ pc = "loop"
  /\ frontier # << >>
  /\ \E p \in {FrontierPop(algo, states, frontier)} :
        /\ InSeen(states, seen, p.item)
        /\ state' = p.item
        /\ frontier' = p.rest
  /\ UNCHANGED <<algo, board, states, seen, result, solution, pc>>
  /\ UNCHANGED <<prior, exc, pieces_arg, mem>>

\* One iteration popping an unseen goal state: it is added and returned.
SearchPopGoal ==
  /\ pc = "loop"
  /\ frontier # << >>
  /\ \E p \in {FrontierPop(algo, states, frontier)} :
        /\ ~InSeen(states, seen, p.item)
        /\ is_goal(states[p.item])
        /\ state' = p.item
        /\ frontier' = p.rest
        /\ seen' = seen \cup {p.item}
        /\ result' = p.item
  /\ pc' = "returned"
  /\ UNCHANGED <<algo, board, states, solution>>
  /\ UNCHANGED <<prior, exc, pieces_arg, mem>>

\* One iteration popping an unseen state that is not a goal: it is added
\* and the frontier is extended with its successors.
SearchPopExpand ==
  /\ pc = "loop"
  /\ frontier # << >>
  /\ \E p \in {FrontierPop(algo, states, frontier)} :
        /\ ~InSeen(states, seen, p.item)
        /\ ~is_goal(states[p.item])
        /\ state' = p.item
        /\ seen' = seen \cup {p.item}
        /\ \E succ \in {generate_successors(states[p.item], p.item)} :
             \E arena \in {states \o succ} :
               LET items == [k \in 1..Len(succ) |-> Len(states) + k]
               IN /\ states' = arena
                  /\ frontier' = FrontierExtend(algo, arena, p.rest, items, 1)
  /\ UNCHANGED <<algo, board, result, solution, pc>>
  /\ UNCHANGED <<prior, exc, pieces_arg, mem>>

\* The loop condition fails: search falls off its end and returns None.
SearchExhausted ==
  /\ pc = "loop"
  /\ frontier = << >>
  /\ result' = NoState
  /\ pc' = "returned"
  /\ UNCHANGED <<algo, board, states, frontier, seen, state, solution>>
  /\ UNCHANGED <<prior, exc, pieces_arg, mem>>

\* __main__ after search: .to_list() on the State returned, written out.
MainWrite ==
  /\ pc = "returned"
  /\ result # NoState
  /\ solution' = to_list(states, result)
  /\ pc' = "written"
  /\ UNCHANGED <<algo, board, states, frontier, seen, state, result>>
  /\ UNCHANGED <<prior, exc, pieces_arg, mem>>

\* __main__ after search returned None: None.to_list() raises
\* AttributeError and the program ends with nothing written.
MainCrash ==
  /\ pc = "returned"
  /\ result = NoState
  /\ pc' = "crashed"
  /\ exc' = "AttributeError"
  /\ UNCHANGED <<algo, board, states, frontier, seen, state, result, solution>>
  /\ UNCHANGED <<prior, pieces_arg, mem>>

Next ==
  \/ SearchStart
  \/ SearchPopSeen
  \/ SearchPopGoal
  \/ SearchPopExpand
  \/ SearchExhausted
  \/ MainWrite
  \/ MainCrash

Spec == Init /\ [][Next]_vars

\* The program runs on: every enabled step is eventually taken.
FairSpec == Spec /\ WF_vars(Next)

\* The program on any puzzle file, valid or not.
MainSpec == InitMain /\ [][Next]_vars

\* The other branch of __main__ taken on the same new_state: after
\* new_state.search(Heap()) returned a goal state, new_state.search([])
\* is called.  search starts from scratch (a new frontier, a new seen);
\* the States of the first search are referenced no longer and leave the
\* arena, new_state stays states[1].
SearchAgain ==
  /\ pc = "returned"
  /\ algo = "astar"
  /\ result # NoState
  /\ prior' = states[result].depth
  /\ algo' = "dfs"
  /\ states' = <<states[1]>>
  /\ frontier' = << >>
  /\ seen' = {}
  /\ state' = NoState
  /\ result' = NoState
  /\ pc' = "start"
  /\ UNCHANGED <<board, solution, exc, pieces_arg, mem>>

NextBoth ==
  \/ Next
  \/ SearchAgain

\* Both frontiers tried on one puzzle, the Heap first.
BothSpec == Init /\ [][NextBoth]_vars

\* --------------------------------------------------- Board() on any list
\* Board.__init__ applied to piece lists of every sort: the list of a
\* puzzle file with one piece put anywhere on the grid or up to MaxOutside
\* cells beyond its right or bottom edge, or with one more piece of any
\* kind added there.  Coordinates are never negative.
Places == (0..(Width - 1 + MaxOutside)) \X (0..(Height - 1 + MaxOutside))

ExtraPieces ==
  {Piece(k[1], k[2], xy[1], xy[2], k[3]) :
     k \in {<<TRUE, FALSE, None>>, <<FALSE, TRUE, None>>,
            <<FALSE, FALSE, "h">>, <<FALSE, FALSE, "v">>},
     xy \in Places}

PieceLists ==
  UNION {LET base == ScanFile(Layouts[n], 0, 0, << >>, FALSE)
         IN {[base EXCEPT ![i[1]].coord_x = i[2][1], ![i[1]].coord_y = i[2][2]] :
               i \in (1..Len(base)) \X Places}
            \cup {Append(base, extra) : extra \in ExtraPieces}
         : n \in 1..NumLayouts}

InitBoard ==
  /\ pieces_arg \in PieceLists
  /\ pc = "construct"
  /\ board = None
  /\ exc = None
  /\ algo = None
  /\ states = << >>
  /\ frontier = << >>
  /\ seen = {}
  /\ state = NoState
  /\ result = NoState
  /\ solution = << >>
  /\ prior = -1
  /\ mem = << >>

\* board = Board(pieces): the Board built, or the exception that ended the
\* construction.
Construct ==
  /\ pc = "construct"
  /\ \E built \in {Board(pieces_arg)} :
        IF built.ok THEN board' = built.val /\ exc' = None
        ELSE board' = None /\ exc' = built.err
  /\ pc' = "constructed"
  /\ UNCHANGED <<algo, states, frontier, seen, state, result, solution>>
  /\ UNCHANGED <<prior, pieces_arg, mem>>

BoardSpec == InitBoard /\ [][Construct]_vars

\* ------------------------------------------ generate_successors by object
\* One call of new_state.generate_successors() with the objects it touches
\* told apart: mem.objs is every Piece object, mem.lists every list of
\* pieces (a list holds indices into objs), and a Board names its list by
\* the list's index in mem.lists.  mem.self is self.board, mem.c the number
\* of candidates tried so far, mem.new_boards the Boards appended so far,
\* mem.returned the list of States returned.

\* the Pieces list l holds, in order
Deref(m, l) == [k \in 1..Len(m.lists[l]) |-> m.objs[m.lists[l][k]]]

\* "new_pieces = self.pieces" : the list itself, not a copy of it.
ListCopy_Alias(m, l) == [m |-> m, id |-> l]

\* self.pieces[:] : a new list holding the same Pieces
ListCopy(m, l) ==
  [m |-> [m EXCEPT !.lists = Append(@, m.lists[l])], id |-> Len(m.lists) + 1]

\* Board.move(piece_number, x, y) called on mem.self, statement by
\* statement: the list is copied, Piece.move builds a new Piece that is
\* stored in the copy, and Board() is built on the copy.  The objects as
\* they are afterwards, and the Board returned or the exception raised.
BoardMoveIn(m, piece_number, x, y) ==
  LET copied == ListCopy(m, m.self.pieces)
      new_pieces == copied.id
      moved == PieceMove(copied.m.objs[copied.m.lists[new_pieces][piece_number + 1]], x, y)
  IN IF ~moved.ok THEN [m |-> copied.m, ret |-> moved]
     ELSE LET stored == [copied.m EXCEPT
                           !.objs = Append(@, moved.val),
                           !.lists[new_pieces][piece_number + 1] = Len(copied.m.objs) + 1]
              built == Board(Deref(stored, new_pieces))
          IN [m |-> stored,
              ret |-> IF built.ok THEN Ok([built.val EXCEPT !.pieces = new_pieces])
                      ELSE built]

\* new_state of a valid puzzle file, before generate_successors is called
InitMove ==
  /\ \E n \in 1..NumLayouts : \E loaded \in {read_from_file(Layouts[n])} :
       /\ loaded.ok
       /\ pieces_arg = loaded.val.pieces
       /\ mem = [objs |-> loaded.val.pieces,
                 lists |-> << [k \in 1..Len(loaded.val.pieces) |-> k] >>,
                 self |-> [loaded.val EXCEPT !.pieces = 1],
                 c |-> 0,
                 new_boards |-> << >>,
                 returned |-> << >>]
  /\ pc = "successors"
  /\ board = None
  /\ exc = None
  /\ algo = None
  /\ states = << >>
  /\ frontier = << >>
  /\ seen = {}
  /\ state = NoState
  /\ result = NoState
  /\ solution = << >>
  /\ prior = -1

\* One pass through the body of the two loops of generate_successors:
\* candidate number mem.c is tried; a Board that was built is appended, an
\* exception is dropped by "finally: continue".
TryMove ==
  /\ pc = "successors"
  /\ mem.c < Len(mem.lists[mem.self.pieces]) * Len(Directions)
  /\ \E r \in {BoardMoveIn(mem, mem.c \div Len(Directions),
                           Directions[(mem.c % Len(Directions)) + 1][1],
                           Directions[(mem.c % Len(Directions)) + 1][2])} :
       mem' = [r.m EXCEPT !.c = mem.c + 1,
                          !.new_boards = IF r.ret.ok THEN Append(@, r.ret.val) ELSE @]
  /\ UNCHANGED <<algo, board, states, frontier, seen, state, result, solution, pc>>
  /\ UNCHANGED <<prior, exc, pieces_arg>>

\* The loops are over: the States of the new boards are returned.
ReturnSuccessors ==
  /\ pc = "successors"
  /\ mem.c = Len(mem.lists[mem.self.pieces]) * Len(Directions)
  /\ mem' = [mem EXCEPT !.returned =
               [k \in 1..Len(mem.new_boards) |-> State(mem.new_boards[k], 0 + 1, 1)]]
  /\ pc' = "generated"
  /\ UNCHANGED <<algo, board, states, frontier, seen, state, result, solution>>
  /\ UNCHANGED <<prior, exc, pieces_arg>>

NextMove ==
  \/ TryMove
  \/ ReturnSuccessors

MoveSpec == InitMove /\ [][NextMove]_vars

\* ============================================================ the puzzle
\* The sliding-block puzzle itself, stated on cells: what the claims below
\* measure the program against.  An arrangement is the set of pieces on
\* the board (kind and top-left corner), without their order in the list.
GridCells == (0..(Width - 1)) \X (0..(Height - 1))

\* the cells <<x, y>> a piece covers
Footprint(p) ==
  IF p.is_goal THEN {<<p.coord_x + dx, p.coord_y + dy>> : dx \in 0..1, dy \in 0..1}
  ELSE IF p.is_single THEN {<<p.coord_x, p.coord_y>>}
  ELSE IF p.orientation = "h" THEN {<<p.coord_x, p.coord_y>>, <<p.coord_x + 1, p.coord_y>>}
  ELSE {<<p.coord_x, p.coord_y>>, <<p.coord_x, p.coord_y + 1>>}

Arrangement(pieces) == {pieces[k] : k \in 1..Len(pieces)}

Covered(P) == UNION {Footprint(p) : p \in P}

Shifted(p, d) == [p EXCEPT !.coord_x = @ + d[1], !.coord_y = @ + d[2]]

UnitSteps == {<<1, 0>>, <<-1, 0>>, <<0, 1>>, <<0, -1>>}

\* piece p of arrangement P may slide one cell in direction d: it stays on
\* the grid and covers no cell of another piece
LegalSlide(P, p, d) ==
  /\ Footprint(Shifted(p, d)) \subseteq GridCells
  /\ Footprint(Shifted(p, d)) \cap Covered(P \ {p}) = {}

\* the arrangements one legal slide away from P
LegalSlides(P) ==
  {(P \ {p[1]}) \cup {Shifted(p[1], p[2])} :
     p \in {q \in P \X UnitSteps : LegalSlide(P, q[1], q[2])}}

\* a valid board: pieces on the grid, pairwise disjoint, two cells empty
ValidPieces(pieces) ==
  /\ \A k \in 1..Len(pieces) : Footprint(pieces[k]) \subseteq GridCells
  /\ \A j, k \in 1..Len(pieces) :
       j # k => Footprint(pieces[j]) \cap Footprint(pieces[k]) = {}
  /\ Cardinality(GridCells \ Covered(Arrangement(pieces))) = 2

\* the goal piece's top-left corner is at the target
GoalAt(P) == \E p \in P : p.is_goal /\ p.coord_x = GoalX /\ p.coord_y = GoalY

\* everything reachable from the arrangements in front by legal slides
RECURSIVE Closure(_, _)
Closure(front, visited) ==
  IF front = {} THEN visited
  ELSE LET nxt == (UNION {LegalSlides(P) : P \in front}) \ visited
       IN Closure(nxt, visited \cup nxt)

InitialArrangements ==
  {Arrangement(ScanFile(Layouts[n], 0, 0, << >>, FALSE)) : n \in 1..NumLayouts}

Universe == Closure(InitialArrangements, InitialArrangements)

SlidesOf == [P \in Universe |-> LegalSlides(P)]

\* MinSlides[P]: the least number of legal slides from P to an arrangement
\* with the goal piece at the target; P is in its domain iff there is one.
RECURSIVE DistTable(_, _, _)
DistTable(tbl, within, k) ==
  LET nxt == {P \in Universe \ within : SlidesOf[P] \cap within # {}}
  IN IF nxt = {} THEN tbl
     ELSE DistTable(tbl @@ [P \in nxt |-> k + 1], within \cup nxt, k + 1)

GoalArrangements == {P \in Universe : GoalAt(P)}

MinSlides == DistTable([P \in GoalArrangements |-> 0], GoalArrangements, 0)

Solvable(b) == Arrangement(b.pieces) \in DOMAIN MinSlides

SearchOver == pc \in {"returned", "written", "crashed"}

\* ================================================================ claims
\* C1: on a valid initial board from which the goal is reachable, the
\* search with the Heap frontier returns a state whose board has the goal
\* piece at (1,3) and whose depth is the least number of legal slides from
\* the initial board to such a board.
C1_AStarShortest ==
  (algo = "astar" /\ SearchOver /\ Solvable(board)) =>
    /\ result # NoState
    /\ GoalAt(Arrangement(states[result].board.pieces))
    /\ states[result].depth = MinSlides[Arrangement(board.pieces)]

C1_Witness ==
  /\ algo = "astar" /\ SearchOver /\ result # NoState
  /\ states[result].depth = 5
  /\ \E k \in seen : states[k].f = states[result].f /\ k # result

\* C2: the path to_list builds from the state search returned starts with
\* the initial board and ends with a board whose goal piece is at (1,3).
C2_PathEnds ==
  (pc = "written") =>
    /\ Len(solution) >= 1
    /\ solution[1] = board
    /\ GoalAt(Arrangement(solution[Len(solution)].pieces))

C2_Witness ==
  /\ pc = "written" /\ algo = "dfs" /\ Len(solution) > 5

\* a and b are boards, b is a by one slide of one piece: same pieces at
\* the same places but one, which moved one cell into cells empty in a
OneSlide(a, b) ==
  /\ Len(a.pieces) = Len(b.pieces)
  /\ \E i \in 1..Len(a.pieces) :
       /\ \A j \in 1..Len(a.pieces) : j # i => b.pieces[j] = a.pieces[j]
       /\ \E d \in UnitSteps :
            /\ b.pieces[i] = Shifted(a.pieces[i], d)
            /\ Footprint(b.pieces[i]) \subseteq GridCells
            /\ (Footprint(b.pieces[i]) \ Footprint(a.pieces[i]))
                 \subseteq (GridCells \ Covered(Arrangement(a.pieces)))

\* C3: consecutive boards of the returned path differ by exactly one
\* single-cell slide of one piece into empty cells.
C3_PathSteps ==
  (pc = "written") =>
    \A k \in 1..(Len(solution) - 1) : OneSlide(solution[k], solution[k + 1])

C3_Witness ==
  /\ pc = "written" /\ Len(solution) > 5
  /\ \E k \in 1..(Len(solution) - 1) :
       \E i \in 1..Len(solution[k].pieces) :
         /\ solution[k].pieces[i].is_goal
         /\ solution[k + 1].pieces[i] # solution[k].pieces[i]

\* C4: under either frontier the search ends; when no sequence of legal
\* slides brings the goal piece to (1,3) it ends with the frontier empty
\* and nothing returned.
C4_Terminates ==
  /\ <>SearchOver
  /\ [](SearchOver /\ ~Solvable(board) => result = NoState /\ frontier = << >>)

C4_Witness ==
  /\ SearchOver /\ ~Solvable(board)
  /\ result = NoState /\ frontier = << >> /\ Cardinality(seen) > 10

\* the States generate_successors built from state e (an arena index)
ChildrenOf(e) == {k \in 1..Len(states) : states[k].parent = e}

ArrangementOf(k) == Arrangement(states[k].board.pieces)

\* C5: the successors generated from a board are exactly the boards one
\* legal slide away (piece on the grid, on no cell of another piece), each
\* once: for every piece, as many successors as it has unblocked directions.
C5_SuccessorsExact ==
  \A e \in seen : ~is_goal(states[e]) =>
    /\ {ArrangementOf(k) : k \in ChildrenOf(e)} = LegalSlides(ArrangementOf(e))
    /\ \A i \in 1..Len(states[e].board.pieces) :
         Cardinality({k \in ChildrenOf(e) :
                        states[k].board.pieces[i] # states[e].board.pieces[i]})
           = Cardinality({d \in UnitSteps :
                            LegalSlide(ArrangementOf(e), states[e].board.pieces[i], d)})

C5_Witness ==
  \E e \in seen :
    /\ ChildrenOf(e) # {}
    /\ \E i \in 1..Len(states[e].board.pieces) :
         /\ Cardinality({d \in UnitSteps :
              LegalSlide(ArrangementOf(e), states[e].board.pieces[i], d)}) = 1
         /\ Cardinality({k \in ChildrenOf(e) :
              states[k].board.pieces[i] # states[e].board.pieces[i]}) = 1

\* the cells of a grid holding the empty symbol
EmptyCells(grid) == {c \in GridCells : grid[c[2]][c[1]] = "."}

WellFormed(b) ==
  /\ ValidPieces(b.pieces)
  /\ EmptyCells(b.grid) = GridCells \ Covered(Arrangement(b.pieces))
  /\ Cardinality(EmptyCells(b.grid)) = 2

\* C6: every board in the frontier, in the seen set or on the returned
\* path has its pieces on the grid, pairwise disjoint, and exactly two
\* empty cells.
C6_BoardsValid ==
  /\ \A k \in 1..Len(frontier) : WellFormed(states[frontier[k]].board)
  /\ \A k \in seen : WellFormed(states[k].board)
  /\ \A k \in 1..Len(solution) : WellFormed(solution[k])

C6_Witness ==
  /\ pc = "written" /\ Len(solution) > 3
  /\ Len(frontier) > 3 /\ Cardinality(seen) > 3

Count(str, ch) == Cardinality({k \in 1..Len(str) : str[k] = ch})

\* C7 as stated: the board string is width x height = 20 characters long
\* and holds exactly two empty-cell symbols.
C7_Original ==
  \A k \in 1..Len(states) :
    /\ Len(states[k].board.board_string) = Width * Height
    /\ Count(states[k].board.board_string, ".") = 2

\* C7, amended: the board string is the height rows of width symbols with
\* a newline between consecutive rows, width x height + height - 1 = 24
\* characters, and holds exactly two empty-cell symbols.
C7_StringShape ==
  \A k \in 1..Len(states) :
    LET str == states[k].board.board_string
    IN /\ Len(str) = Width * Height + Height - 1
       /\ \A j \in 1..Len(str) : (str[j] = "\n") <=> (j % (Width + 1) = 0)
       /\ \A c \in GridCells :
            str[c[2] * (Width + 1) + c[1] + 1] = states[k].board.grid[c[2]][c[1]]
       /\ Count(str, ".") = 2

C7_Witness ==
  \E k \in 1..Len(states) :
    /\ states[k].parent # NoState
    /\ states[k].board.board_string # board.board_string
    /\ Len(states[k].board.board_string) = 24

\* C8: two States are equal with equal hashes exactly when their board
\* strings are equal; States whose piece lists are permutations of each
\* other are equal whatever their depth and parent, and of two such States
\* only the one popped first enters the seen set.
C8_EqualByString ==
  LET H == [k \in 1..Len(states) |-> StateHash(states[k])]
  IN /\ \A i, j \in 1..Len(states) :
          /\ (StateEq(states[i], states[j]) /\ H[i] = H[j])
               <=> (states[i].board.board_string = states[j].board.board_string)
          /\ ArrangementOf(i) = ArrangementOf(j)
               => (StateEq(states[i], states[j]) /\ H[i] = H[j])
     /\ \A a, b \in seen : ArrangementOf(a) = ArrangementOf(b) => a = b
     /\ (state # NoState /\ \E t \in seen : ArrangementOf(t) = ArrangementOf(state))
          => (state \in seen \/ ChildrenOf(state) = {})

C8_Witness ==
  /\ state # NoState /\ state \notin seen
  /\ \E t \in seen :
       /\ states[t].board.pieces # states[state].board.pieces
       /\ ArrangementOf(t) = ArrangementOf(state)
       /\ states[t].depth # states[state].depth
       /\ states[t].parent # states[state].parent

\* C9: the heuristic of a state is 0 exactly when it is a goal state, and
\* the heuristics of a state and of its successor differ by at most 1.
C9_HeuristicStep ==
  \A k \in 1..Len(states) :
    /\ (manhattan_distance(states[k].board) = 0) <=> is_goal(states[k])
    /\ states[k].parent # NoState =>
         Abs(manhattan_distance(states[k].board)
               - manhattan_distance(states[states[k].parent].board)) <= 1

C9_Witness ==
  \E k \in 1..Len(states) :
    /\ states[k].parent # NoState
    /\ is_goal(states[k])
    /\ manhattan_distance(states[states[k].parent].board) = 1
    /\ \E j \in 1..Len(states) :
         /\ states[j].parent # NoState
         /\ manhattan_distance(states[j].board)
              > manhattan_distance(states[states[j].parent].board)

\* C10: on a board from which the goal is reachable the heuristic is at
\* most the least number of legal slides to a board with the goal piece
\* at (1,3).
C10_Admissible ==
  \A k \in 1..Len(states) :
    Solvable(states[k].board) =>
      manhattan_distance(states[k].board) <= MinSlides[ArrangementOf(k)]

C10_Witness ==
  /\ \E k \in 1..Len(states) :
       /\ Solvable(states[k].board)
       /\ manhattan_distance(states[k].board) = 1
       /\ MinSlides[ArrangementOf(k)] = 1
  /\ \E k \in 1..Len(states) :
       /\ Solvable(states[k].board)
       /\ manhattan_distance(states[k].board) < MinSlides[ArrangementOf(k)]

\* C11: on a solvable board the goal state the search with the Heap
\* frontier returns is never deeper than the goal state the search with
\* the list frontier returns from the same initial state.
C11_HeapNoDeeper ==
  (prior >= 0 /\ algo = "dfs" /\ SearchOver /\ result # NoState) =>
    prior <= states[result].depth

C11_Witness ==
  /\ prior >= 0 /\ algo = "dfs" /\ pc = "written"
  /\ GoalAt(Arrangement(states[result].board.pieces))
  /\ prior < states[result].depth

\* C12: a malformed initial puzzle is reported as a failure before the
\* search starts, and a search that empties its frontier on a valid puzzle
\* is reported as a normal negative result: the program ends without an
\* exception, so not with the outcome of a malformed puzzle.
C12_OutcomesApart ==
  /\ pc = "failed" => exc # None /\ states = << >> /\ seen = {}
  /\ (SearchOver /\ result = NoState) => exc = None

\* two pieces of the list cover a common cell
Overlapping(ps) ==
  \E j, k \in 1..Len(ps) : j # k /\ Footprint(ps[j]) \cap Footprint(ps[k]) # {}

\* a piece of the list covers a cell that is not on the grid
OffGrid(ps) == \E k \in 1..Len(ps) : ~(Footprint(ps[k]) \subseteq GridCells)

\* C13: Board construction from a list of pieces with non-negative
\* coordinates fails whenever two pieces overlap or a piece reaches outside
\* the 4x5 grid.
C13_RejectsInvalid ==
  (pc = "constructed" /\ (Overlapping(pieces_arg) \/ OffGrid(pieces_arg))) =>
    exc # None

\* the board string of the State at arena index k
StringOf(k) == states[k].board.board_string

\* C14: in a run every board string is added to seen, and expanded, at most
\* once: the members of seen have pairwise distinct strings, only members
\* of seen have successors, a pop whose string is in seen already changes
\* neither seen nor the States (it pushes nothing), and any other pop adds
\* the popped State to seen.
C14_ExpandedOnce ==
  /\ [](/\ \A a, b \in seen : StringOf(a) = StringOf(b) => a = b
        /\ \A k \in 1..Len(states) : ChildrenOf(k) # {} => k \in seen)
  /\ [][(pc = "loop" /\ frontier # << >>) =>
          IF \E t \in seen : StringOf(t) = states[state'].board.board_string
            THEN /\ seen' = seen
                 /\ states' = states
                 /\ Len(frontier') = Len(frontier) - 1
            ELSE /\ state' \notin seen
                 /\ seen' = seen \cup {state'}]_vars

C14_Witness ==
  /\ pc = "loop" /\ state # NoState /\ state \notin seen
  /\ \E t \in seen : StringOf(t) = StringOf(state)
  /\ ChildrenOf(state) = {}
  /\ Cardinality(seen) >= 2

\* C15: in the search with the Heap frontier, a popped State that is
\* discarded because its board string is in seen already has a priority f
\* no smaller than the f of the State with that string that was popped
\* first (the member of seen).
C15_FirstPopCheapest ==
  (algo = "astar" /\ pc = "loop" /\ state # NoState /\ state \notin seen) =>
    \A t \in seen : StringOf(t) = StringOf(state) => states[t].f <= states[state].f

C15_Witness ==
  /\ algo = "astar" /\ pc = "loop" /\ state # NoState /\ state \notin seen
  /\ \E t \in seen : StringOf(t) = StringOf(state) /\ states[t].f < states[state].f

\* self.board as the objects hold it: the Pieces of its list, its grid, its
\* string and its goal
SourceBoard ==
  [pieces |-> Deref(mem, mem.self.pieces), grid |-> mem.self.grid,
   board_string |-> mem.self.board_string, goal |-> mem.self.goal]

\* C16: no step of generate_successors, whether its Board.move builds a
\* Board or raises, changes the board it is applied to: the piece list,
\* every piece's coordinates, the grid and the board string stay as they
\* were.
C16_SourceUntouched == [][SourceBoard' = SourceBoard]_vars

C16_Witness ==
  /\ pc = "generated"
  /\ Len(mem.returned) >= 2
  /\ Len(mem.returned) < mem.c
  /\ Len(mem.lists) = mem.c + 1
  /\ SourceBoard.pieces = pieces_arg
  /\ \A k \in 1..Len(mem.returned) :
       Deref(mem, mem.returned[k].board.pieces) # pieces_arg

\* C17: the initial state has depth 0 and no parent; every other State was
\* generated from its parent (an earlier, expanded State whose board is
\* one slide away) and is one deeper than it; so the depth of a State is
\* the number of parent links from it to the root and the path to_list
\* builds for it has depth + 1 boards.
C17_DepthCountsLinks ==
  /\ \A k \in 1..Len(states) :
       /\ (k = 1) <=> (states[k].parent = NoState)
       /\ k = 1 => states[k].depth = 0
       /\ k > 1 =>
            /\ states[k].parent \in 1..(k - 1)
            /\ states[k].parent \in seen
            /\ states[k].depth = states[states[k].parent].depth + 1
            /\ ArrangementOf(k) \in LegalSlides(ArrangementOf(states[k].parent))
       /\ Len(ParentChain(states, k)) = states[k].depth + 1
       /\ Len(to_list(states, k)) = states[k].depth + 1
  /\ pc = "written" => Len(solution) = states[result].depth + 1

C17_Witness ==
  /\ pc = "written"
  /\ states[result].depth >= 5
  /\ Len(solution) = states[result].depth + 1
  /\ \E k \in 1..Len(states) :
       k # result /\ states[k].depth = states[result].depth

\* the kind of a piece: what it is, without where it is
KindOf(p) == <<p.is_goal, p.is_single, p.orientation>>

\* C18: the initial board having exactly one goal piece, every board of the
\* search has as many pieces as the initial board, of the same kinds at the
\* same indices; exactly one of them is the goal piece, and it is the
\* board's recorded goal; a board differs from its parent's in exactly one
\* piece.
C18_PiecesKept ==
  \A k \in 1..Len(states) :
    LET ps == states[k].board.pieces
    IN /\ Len(ps) = Len(board.pieces)
       /\ \A i \in 1..Len(ps) : KindOf(ps[i]) = KindOf(board.pieces[i])
       /\ Cardinality({i \in 1..Len(ps) : ps[i].is_goal}) = 1
       /\ \A i \in 1..Len(ps) : ps[i].is_goal => states[k].board.goal = ps[i]
       /\ k > 1 =>
            Cardinality({i \in 1..Len(ps) :
                           ps[i] # states[states[k].parent].board.pieces[i]}) = 1

C18_Witness ==
  /\ Cardinality({i \in 1..Len(board.pieces) : board.pieces[i].is_goal}) = 1
  /\ \E k \in seen :
       /\ states[k].board.goal # board.goal
       /\ Cardinality({i \in 1..Len(board.pieces) :
                         states[k].board.pieces[i] # board.pieces[i]}) >= 3

\* the arrangements that legal slides reach from the initial board
ReachableFromInitial ==
  Closure({Arrangement(board.pieces)}, {Arrangement(board.pieces)})

\* C19: the path written out holds no board twice (its board strings are
\* pairwise distinct), so the depth of the State returned is smaller than
\* the number of distinct boards reachable from the initial board.
C19_PathNoRepeat ==
  pc = "written" =>
    /\ \A i, j \in 1..Len(solution) :
         i < j => solution[i].board_string # solution[j].board_string
    /\ Len(solution) <= Cardinality(ReachableFromInitial)
    /\ states[result].depth < Cardinality(ReachableFromInitial)

C19_Witness ==
  /\ pc = "written" /\ algo = "dfs"
  /\ Len(solution) >= 5
  /\ states[result].depth > MinSlides[Arrangement(board.pieces)]
  /\ Len(solution) < Cardinality(seen)

\* C20: the board string determines the layout: two boards of the search
\* with equal strings have the same set of pieces (kind, orientation and
\* top-left corner), so a popped State that is discarded has the layout of
\* a member of seen.
C20_StringFixesLayout ==
  /\ \A i, j \in 1..Len(states) :
       StringOf(i) = StringOf(j) => ArrangementOf(i) = ArrangementOf(j)
  /\ (pc = "loop" /\ state # NoState /\ state \notin seen) =>
       \E t \in seen : ArrangementOf(t) = ArrangementOf(state)

C20_Witness ==
  /\ pc = "loop" /\ state # NoState /\ state \notin seen
  /\ \E t \in seen :
       /\ StringOf(t) = StringOf(state)
       /\ ArrangementOf(t) = ArrangementOf(state)
  /\ \E i, j \in 1..Len(states) :
       /\ StringOf(i) # StringOf(j)
       /\ EmptyCells(states[i].board.grid) = EmptyCells(states[j].board.grid)
       /\ states[i].board.goal = states[j].board.goal

============================================================================
